---- MODULE Spec2Model ----
(***************************************************************************)
(* FlightSearchAgent.process_query (src/flight_agent/agent.py) and the     *)
(* two flight tools it dispatches (src/flight_agent/tools/                 *)
(* search_flights_tool.py), as a state machine.                            *)
(*                                                                         *)
(* A Python string is a sequence of tokens (<<>> is the empty string), so  *)
(* that an f-string is a concatenation and "\n\n".join is a concatenation  *)
(* with a separator token.  None and "" are both <<>>: the code only ever  *)
(* tests these values for truthiness.                                      *)
(***************************************************************************)
EXTENDS Naturals, Sequences, FiniteSets, TLC

\* ------------------------------------------------------------------ bounds
MaxSends == 3
MaxRuns == 2
MaxParts == 2
MaxAttempts == 2

\* --------------------------------------------------------------- constants
SF == "search_flights"
SGF == "search_google_flights"
BOGUS == "book_hotel"

\* the interactive loop of main.py, and two requests in flight in
\* adk_request_handler on the one event loop
MainCallers == {"main"}
HandlerCallers == {"h1", "h2"}
Callers == MainCallers \cup HandlerCallers

\* the arguments a well-formed invocation request carries
ArgOrigin == "NYC"
ArgDestination == "LON"
ArgDate == "2025-06-01"

Queries == {<<"flights NYC to LON on 2025-06-01">>}

\* payload.get("query"): a query, or nothing
PayloadQueries == Queries \cup {<<>>}

\* AVAILABLE_FLIGHT_TOOLS: the names the dispatch table knows
AVAILABLE_FLIGHT_TOOLS == {SF, SGF}

\* ---------------------------------------------------------- flight records
Flight(airline, notes) ==
    [airline |-> airline, origin |-> ArgOrigin, destination |-> ArgDestination,
     notes |-> notes]

F1 == Flight("BA", "BA112")
F2 == Flight("AA", "AA100")
F3 == Flight("VS", "VS4")

CountTok(n) == IF n = 0 THEN "0" ELSE IF n = 1 THEN "1" ELSE IF n = 2 THEN "2" ELSE "many"

\* ------------------------------------------------------------ tool payloads
Payload(flights, summary, error) ==
    [flights |-> flights, summary |-> summary, error |-> error]

NoPayload == Payload(<<>>, <<>>, <<>>)

ErrorPayload(msg) == Payload(<<>>, <<>>, msg)

\* search_flights_sky_scrapper: what the provider did decides the result
search_flights_sky_scrapper(api, originSkyId, destinationSkyId) ==
    CASE api = "no_key" -> ErrorPayload(<<"Sky Scrapper API key not set in .env">>)
      [] api = "http_error" -> ErrorPayload(<<"Sky Scrapper API error: ", "rate limited">>)
      [] api = "two_flights" ->
            Payload(<<F1, F2>>, <<"Found ", CountTok(2), " flights from ", originSkyId,
                                  " to ", destinationSkyId, " on ", ArgDate, ".">>, <<>>)
      [] OTHER ->
            Payload(<<>>, <<"Found ", CountTok(0), " flights from ", originSkyId,
                            " to ", destinationSkyId, " on ", ArgDate, ".">>, <<>>)

\* get_sky_ids_for_airports: the two location lookups
get_sky_ids_for_airports(lookup, origin, destination) ==
    CASE lookup = "origin_unknown" ->
            [error |-> <<"Could not find Sky Scrapper location for origin: ", origin>>,
             originSkyId |-> "", destinationSkyId |-> ""]
      [] lookup = "destination_unknown" ->
            [error |-> <<"Could not find Sky Scrapper location for destination: ", destination>>,
             originSkyId |-> "", destinationSkyId |-> ""]
      [] OTHER ->
            [error |-> <<>>, originSkyId |-> "NYCA", destinationSkyId |-> "LOND"]

\* unified_search_flights: lookup, then the Sky Scrapper search
unified_search_flights(env) ==
    LET ids == get_sky_ids_for_airports(env.lookup, ArgOrigin, ArgDestination)
    IN  IF ids.error # <<>>
        THEN ErrorPayload(ids.error)
        ELSE search_flights_sky_scrapper(env.api, ids.originSkyId, ids.destinationSkyId)

\* search_google_flights_serpapi
search_google_flights_serpapi(env) ==
    CASE env.api = "no_key" -> ErrorPayload(<<"SerpApi API key not set in .env">>)
      [] env.api = "http_error" -> ErrorPayload(<<"SerpApi error: ", "quota exceeded">>)
      [] OTHER ->
            Payload(<<F3>>, <<"Found ", CountTok(1), " flights from ", ArgOrigin, " to ",
                              ArgDestination, " on ", ArgDate, " (Google Flights).">>, <<>>)

\* what the providers can do during one tool call
ToolEnvs(name) ==
    IF name = SF
    THEN {[lookup |-> "origin_unknown", api |-> "two_flights"],
          [lookup |-> "ok", api |-> "http_error"],
          [lookup |-> "ok", api |-> "two_flights"]}
    ELSE {[lookup |-> "ok", api |-> "http_error"],
          [lookup |-> "ok", api |-> "one_flight"]}

\* AVAILABLE_FLIGHT_TOOLS[function_name](**function_args)
CallTool(name, env) ==
    IF name = SF THEN unified_search_flights(env) ELSE search_google_flights_serpapi(env)

\* ------------------------------------------------- content parts (segments)
\* A Part holds exactly one of text, function_call, function_response.
TextPart(t) ==
    [kind |-> "text", name |-> "", args |-> "", text |-> t, response |-> NoPayload]

FunctionCallPart(name, args) ==
    [kind |-> "call", name |-> name, args |-> args, text |-> <<>>, response |-> NoPayload]

\* Part.from_function_response(name=..., response=...)
FunctionResponsePartRewordsError(name, data) ==
    [kind |-> "fresp", name |-> name, args |-> "", text |-> <<>>,
     response |-> [data EXCEPT !.error = IF @ = <<>> THEN @ ELSE <<"Tool failed: ">> \o @]]
FunctionResponsePart(name, data) ==
    [kind |-> "fresp", name |-> name, args |-> "", text |-> <<>>, response |-> data]

ClosingText == <<"Based on both searches, option 1 is best value.">>

\* a model response: candidates may be empty; candidates[0].content.parts
Response(cand, parts) == [cand |-> cand, parts |-> parts]

NoResponse == Response(FALSE, <<>>)

\* the responses the model may give to a send
ModelResponses ==
    { Response(FALSE, <<>>),
      Response(TRUE, <<>>),
      Response(TRUE, <<TextPart(ClosingText)>>),
      Response(TRUE, <<TextPart(<<>>)>>),
      Response(TRUE, <<FunctionCallPart(SF, "ok")>>),
      Response(TRUE, <<FunctionCallPart(SF, "missing_origin")>>),
      Response(TRUE, <<FunctionCallPart(SGF, "ok")>>),
      Response(TRUE, <<FunctionCallPart(BOGUS, "ok")>>),
      Response(TRUE, <<FunctionCallPart(SF, "ok"), FunctionCallPart(SGF, "ok")>>),
      Response(TRUE, <<TextPart(ClosingText), FunctionCallPart(SF, "ok")>>),
      Response(TRUE, <<FunctionResponsePart(SF,
                          unified_search_flights([lookup |-> "origin_unknown", api |-> "two_flights"]))>>),
      Response(TRUE, <<TextPart(ClosingText),
                       FunctionResponsePart(SF,
                          unified_search_flights([lookup |-> "ok", api |-> "two_flights"]))>>) }

\* the while condition of the dispatch loop
WhileCondAnyPart(r) ==
    /\ r.cand
    /\ \E i \in 1..Len(r.parts) : r.parts[i].kind = "call"
WhileCond(r) ==
    /\ r.cand
    /\ r.parts # <<>>
    /\ r.parts[1].kind = "call"

\* function_call_part.function_call.name / .args of parts[0]
FunctionNameOfLastPart(r) == r.parts[Len(r.parts)].name
FunctionName(r) == r.parts[1].name
FunctionArgs(r) == r.parts[1].args

\* function_to_call(**function_args) is rejected with a TypeError when a
\* required parameter is missing
ArgsAccepted(args) == args = "ok"

\* ------------------------------------------------------------- aggregation
IdxTok(i) == IF i = 1 THEN "1" ELSE IF i = 2 THEN "2" ELSE IF i = 3 THEN "3" ELSE "n"

ProblemLine(error) == <<"Sorry, there was a problem: ">> \o error

ListingHeader == <<"\nHere are the best flight options I found for you:">>

FlightEntry(idx, f) ==
    <<IdxTok(idx), ". Airline: ", f.airline, "\n   Route: ", f.origin, " -> ",
      f.destination, "\n   Flight Number: ", f.notes>>

FlightEntriesReversed(flights) ==
    [i \in 1..Len(flights) |-> FlightEntry(i, flights[Len(flights) + 1 - i])]
FlightEntries(flights) == [i \in 1..Len(flights) |-> FlightEntry(i, flights[i])]

SummaryLine(summary) == <<"\nSummary: ">> \o summary

\* what one part appends to text_parts
PartTextsSkipsError(part) ==
    IF part.kind = "text"
    THEN IF part.text # <<>> THEN <<part.text>> ELSE <<>>
    ELSE IF part.kind = "fresp"
    THEN LET flights == part.response.flights
             summary == part.response.summary
         IN  IF flights # <<>>
             THEN <<ListingHeader>> \o FlightEntries(flights)
                  \o (IF summary # <<>> THEN <<SummaryLine(summary)>> ELSE <<>>)
             ELSE IF summary # <<>> THEN <<summary>>
             ELSE <<>>
    ELSE <<>>
PartTexts(part) ==
    IF part.kind = "text"
    THEN IF part.text # <<>> THEN <<part.text>> ELSE <<>>
    ELSE IF part.kind = "fresp"
    THEN LET flights == part.response.flights
             summary == part.response.summary
             error == part.response.error
         IN  IF error # <<>> THEN <<ProblemLine(error)>>
             ELSE IF flights # <<>>
             THEN <<ListingHeader>> \o FlightEntries(flights)
                  \o (IF summary # <<>> THEN <<SummaryLine(summary)>> ELSE <<>>)
             ELSE IF summary # <<>> THEN <<summary>>
             ELSE <<>>
    ELSE <<>>

RECURSIVE TextParts(_)
TextParts(parts) ==
    IF parts = <<>> THEN <<>>
    ELSE PartTexts(Head(parts)) \o TextParts(Tail(parts))

\* "\n\n".join(text_parts)
RECURSIVE Join(_)
Join(text_parts) ==
    IF text_parts = <<>> THEN <<>>
    ELSE IF Len(text_parts) = 1 THEN Head(text_parts)
    ELSE Head(text_parts) \o <<"\n\n">> \o Join(Tail(text_parts))

\* the value process_query hands back, and the return statement it left by
Returned(via, isStr, val) == [via |-> via, isStr |-> isStr, val |-> val]

NoReturn == Returned("running", FALSE, <<>>)

FallbackText == <<"Sorry, I couldn't generate a response for that query after processing.">>

\* except Exception as e: return f"An error occurred ...: {e}"
ExceptReturn(e) ==
    Returned("except", TRUE, <<"An error occurred while processing your request: ", e>>)

\* the extraction of the final text response
FinalReturnInverted(r) ==
    IF r.cand /\ r.parts # <<>>
    THEN LET text_parts == TextParts(r.parts)
         IN  IF text_parts = <<>>
             THEN Returned("answer", TRUE, Join(text_parts))
             ELSE Returned("fallback", TRUE, FallbackText)
    ELSE Returned("none", FALSE, <<>>)
FinalReturn(r) ==
    IF r.cand /\ r.parts # <<>>
    THEN LET text_parts == TextParts(r.parts)
         IN  IF text_parts # <<>>
             THEN Returned("answer", TRUE, Join(text_parts))
             ELSE Returned("fallback", TRUE, FallbackText)
    ELSE Returned("none", FALSE, <<>>)

\* ------------------------------------------------------------------- state
VARIABLES
    chat,                 \* self._chat is set (a session exists)
    history,              \* the session's ordered message history
    pc,                   \* where each caller's process_query stands
    runId,                \* the number of the run each caller is in
    user_query,           \* process_query's argument
    tools_for_this_call,  \* the local of that name
    response,             \* the local of that name
    tool_response_data,   \* the local of that name
    broke,                \* the loop was left by break
    dispatched,           \* the tool calls made in the run, in order
    ret,                  \* what process_query returned
    nruns,                \* process_query calls so far
    nsends,               \* send_message_async calls so far
    nrecv,                \* send_message_async calls that returned a response
    agent_instance,       \* app.py's _agent_instance: 0 for None, else the instance
    agent,                \* the instance get_agent gave each caller, 0 for none
    attempts              \* FlightSearchAgent() calls made by get_agent so far

vars == <<chat, history, pc, runId, user_query, tools_for_this_call, response,
          tool_response_data, broke, dispatched, ret, nruns, nsends, nrecv,
          agent_instance, agent, attempts>>

\* ---------------------------------------------------------------- messages
\* offered: the tools passed along with a send; run: the run that sent it
\* (for a model message, the run whose send it answers)
Message(role, run, cand, parts, offered) ==
    [role |-> role, run |-> run, cand |-> cand, parts |-> parts, offered |-> offered]

UserMessage(run, q, tools) == Message("user", run, TRUE, <<TextPart(q)>>, tools)

FunctionMessage(run, part, tools) == Message("function", run, TRUE, <<part>>, tools)

ModelMessage(run, r) == Message("model", run, r.cand, r.parts, {})

\* Session.send: the outgoing message joins the history before the call
\* suspends, the candidate response when it returns
SessionAppendOutgoing(h, m) == Append(h, m)
SessionAppendResponse(h, m) == Append(h, m)

\* if not self._chat
SessionMissingAlways == TRUE
SessionMissingAfterError ==
    ~chat \/ \E p \in Callers : ret[p].via = "except"
SessionMissing == ~chat

\* tools_for_this_call of the initial send
InitialToolsSecondFirst == {SGF}
InitialToolsCarriedOver ==
    LET used == UNION {tools_for_this_call[p] : p \in Callers}
    IN  IF used = {} THEN {SF} ELSE used
InitialTools == {SF}

\* the tools passed with the send that carries function_name's result
NextOfferSameAgain(function_name) ==
    IF function_name = SF THEN {SF} ELSE {}
NextOfferKeepsSecond(function_name) ==
    IF function_name \in {SF, SGF} THEN {SGF} ELSE {}
NextOffer(function_name) ==
    IF function_name = SF THEN {SGF}
    ELSE IF function_name = SGF THEN {}
    ELSE {}

\* {"error": f"Unknown function {function_name}"}
UnknownFunctionError(function_name) == ErrorPayload(<<"Unknown function ", function_name>>)

\* the messages of one run, in history order
RunMessages(run) == SelectSeq(history, LAMBDA m: m.run = run)

\* the tools offered with the latest send of a run
LastOffered(run) ==
    LET sent == SelectSeq(history, LAMBDA m: m.run = run /\ m.role # "model")
    IN  IF sent = <<>> THEN {} ELSE sent[Len(sent)].offered

\* -------------------------------------------------------------------- Init
Init ==
    /\ chat = FALSE
    /\ history = <<>>
    /\ pc = [p \in Callers |-> "idle"]
    /\ runId = [p \in Callers |-> 0]
    /\ user_query = [p \in Callers |-> <<>>]
    /\ tools_for_this_call = [p \in Callers |-> {}]
    /\ response = [p \in Callers |-> NoResponse]
    /\ tool_response_data = [p \in Callers |-> NoPayload]
    /\ broke = [p \in Callers |-> FALSE]
    /\ dispatched = [p \in Callers |-> <<>>]
    /\ ret = [p \in Callers |-> NoReturn]
    /\ nruns = 0
    /\ nsends = 0
    /\ nrecv = 0
    /\ agent_instance = 0
    /\ agent = [p \in Callers |-> 0]
    /\ attempts = 0

\* ----------------------------------------------------------------- actions
\* process_query up to its first await on send_message_async:
\* start_session when there is none, then the initial send
EnterProcessQuery(p, q) ==
    /\ pc[p] = "idle"
    /\ nruns < MaxRuns
    /\ nsends < MaxSends
    /\ chat' = TRUE
    /\ nruns' = nruns + 1
    /\ runId' = [runId EXCEPT ![p] = nruns + 1]
    /\ user_query' = [user_query EXCEPT ![p] = q]
    /\ tools_for_this_call' = [tools_for_this_call EXCEPT ![p] = InitialTools]
    /\ history' = SessionAppendOutgoing(IF SessionMissing THEN <<>> ELSE history,
                                        UserMessage(nruns + 1, q, InitialTools))
    /\ nsends' = nsends + 1
    /\ response' = [response EXCEPT ![p] = NoResponse]
    /\ tool_response_data' = [tool_response_data EXCEPT ![p] = NoPayload]
    /\ broke' = [broke EXCEPT ![p] = FALSE]
    /\ dispatched' = [dispatched EXCEPT ![p] = <<>>]
    /\ ret' = [ret EXCEPT ![p] = NoReturn]
    /\ pc' = [pc EXCEPT ![p] = "sending"]
    /\ UNCHANGED nrecv

\* process_query called on an agent the caller already holds
ProcessQuery(p, q) ==
    /\ EnterProcessQuery(p, q)
    /\ UNCHANGED <<agent_instance, agent, attempts>>

\* send_message_async raises: the except clause returns the failure text
SendFailsCarriesOn(p) ==
    /\ pc[p] = "sending"
    /\ ret' = [ret EXCEPT ![p] = ExceptReturn("model unavailable")]
    /\ pc' = [pc EXCEPT ![p] = "loop"]
    /\ UNCHANGED <<chat, history, runId, user_query, tools_for_this_call, response,
                   tool_response_data, broke, dispatched, nruns, nsends, nrecv,
                   agent_instance, agent, attempts>>
SendFails(p) ==
    /\ pc[p] = "sending"
    /\ ret' = [ret EXCEPT ![p] = ExceptReturn("model unavailable")]
    /\ pc' = [pc EXCEPT ![p] = "done"]
    /\ UNCHANGED <<chat, history, runId, user_query, tools_for_this_call, response,
                   tool_response_data, broke, dispatched, nruns, nsends, nrecv,
                   agent_instance, agent, attempts>>

\* send_message_async returns r; the session appends it to its history.
\* A response that keeps the loop going is drawn only while sends remain.
SendReturns(p, r) ==
    /\ pc[p] = "sending"
    /\ (WhileCond(r) /\ ~broke[p]) => nsends < MaxSends
    /\ response' = [response EXCEPT ![p] = r]
    /\ history' = SessionAppendResponse(history, ModelMessage(runId[p], r))
    /\ nrecv' = nrecv + 1
    /\ pc' = [pc EXCEPT ![p] = "loop"]
    /\ UNCHANGED <<chat, runId, user_query, tools_for_this_call, tool_response_data,
                   broke, dispatched, ret, nruns, nsends,
                   agent_instance, agent, attempts>>

\* loop body, known function: up to the await on the tool
Dispatch(p) ==
    /\ pc[p] = "loop"
    /\ ~broke[p]
    /\ WhileCond(response[p])
    /\ FunctionName(response[p]) \in AVAILABLE_FLIGHT_TOOLS
    /\ dispatched' = [dispatched EXCEPT ![p] =
            Append(@, [name |-> FunctionName(response[p]),
                       offered |-> LastOffered(runId[p])])]
    /\ pc' = [pc EXCEPT ![p] = "calling"]
    /\ UNCHANGED <<chat, history, runId, user_query, tools_for_this_call, response,
                   tool_response_data, broke, ret, nruns, nsends, nrecv,
                   agent_instance, agent, attempts>>

\* the tool call raises (TypeError on the arguments): the except clause
ToolRaises(p) ==
    /\ pc[p] = "calling"
    /\ ~ArgsAccepted(FunctionArgs(response[p]))
    /\ ret' = [ret EXCEPT ![p] = ExceptReturn("missing 1 required positional argument")]
    /\ pc' = [pc EXCEPT ![p] = "done"]
    /\ UNCHANGED <<chat, history, runId, user_query, tools_for_this_call, response,
                   tool_response_data, broke, dispatched, nruns, nsends, nrecv,
                   agent_instance, agent, attempts>>

\* the tool returns: wrap the result and send it with the next tools
ToolReturns(p) ==
    /\ pc[p] = "calling"
    /\ ArgsAccepted(FunctionArgs(response[p]))
    /\ \E env \in ToolEnvs(FunctionName(response[p])) :
       LET function_name == FunctionName(response[p])
           data == CallTool(function_name, env)
       IN  /\ tool_response_data' = [tool_response_data EXCEPT ![p] = data]
           /\ tools_for_this_call' = [tools_for_this_call EXCEPT ![p] =
                    IF function_name = SF THEN NextOffer(function_name) ELSE @]
           /\ history' = SessionAppendOutgoing(history,
                    FunctionMessage(runId[p], FunctionResponsePart(function_name, data),
                                    NextOffer(function_name)))
    /\ nsends' = nsends + 1
    /\ pc' = [pc EXCEPT ![p] = "sending"]
    /\ UNCHANGED <<chat, runId, user_query, response, broke, dispatched, ret, nruns, nrecv,
                   agent_instance, agent, attempts>>

\* loop body, unknown function: send the error without tools, then break
UnknownFunctionNoBreak(p) ==
    /\ pc[p] = "loop"
    /\ ~broke[p]
    /\ WhileCond(response[p])
    /\ FunctionName(response[p]) \notin AVAILABLE_FLIGHT_TOOLS
    /\ LET function_name == FunctionName(response[p])
       IN  history' = SessionAppendOutgoing(history,
                FunctionMessage(runId[p],
                    FunctionResponsePart(function_name, UnknownFunctionError(function_name)),
                    {}))
    /\ nsends' = nsends + 1
    /\ pc' = [pc EXCEPT ![p] = "sending"]
    /\ UNCHANGED <<chat, runId, user_query, tools_for_this_call, response,
                   tool_response_data, broke, dispatched, ret, nruns, nrecv,
                   agent_instance, agent, attempts>>
UnknownFunction(p) ==
    /\ pc[p] = "loop"
    /\ ~broke[p]
    /\ WhileCond(response[p])
    /\ FunctionName(response[p]) \notin AVAILABLE_FLIGHT_TOOLS
    /\ LET function_name == FunctionName(response[p])
       IN  history' = SessionAppendOutgoing(history,
                FunctionMessage(runId[p],
                    FunctionResponsePart(function_name, UnknownFunctionError(function_name)),
                    {}))
    /\ nsends' = nsends + 1
    /\ broke' = [broke EXCEPT ![p] = TRUE]
    /\ pc' = [pc EXCEPT ![p] = "sending"]
    /\ UNCHANGED <<chat, runId, user_query, tools_for_this_call, response,
                   tool_response_data, dispatched, ret, nruns, nrecv,
                   agent_instance, agent, attempts>>

\* the loop is over: extract and return the final text response
Finish(p) ==
    /\ pc[p] = "loop"
    /\ broke[p] \/ ~WhileCond(response[p])
    /\ ret' = [ret EXCEPT ![p] = FinalReturn(response[p])]
    /\ pc' = [pc EXCEPT ![p] = "done"]
    /\ UNCHANGED <<chat, history, runId, user_query, tools_for_this_call, response,
                   tool_response_data, broke, dispatched, nruns, nsends, nrecv,
                   agent_instance, agent, attempts>>

\* the caller takes the returned value and may ask again
Return(p) ==
    /\ pc[p] = "done"
    /\ pc' = [pc EXCEPT ![p] = "idle"]
    /\ UNCHANGED <<chat, history, runId, user_query, tools_for_this_call, response,
                   tool_response_data, broke, dispatched, ret, nruns, nsends, nrecv,
                   agent_instance, agent, attempts>>

Next ==
    \E p \in MainCallers :
        \/ \E q \in Queries : ProcessQuery(p, q)
        \/ SendFails(p)
        \/ \E r \in ModelResponses : SendReturns(p, r)
        \/ Dispatch(p)
        \/ ToolRaises(p)
        \/ ToolReturns(p)
        \/ UnknownFunction(p)
        \/ Finish(p)
        \/ Return(p)

Spec == Init /\ [][Next]_vars

\* ------------------------------------------- requests through the handler
\* adk_request_handler up to its first await: a payload without a query is
\* answered with the 400 record, any other goes to process_query of the one
\* agent get_agent returns
MissingQuery == Returned("rejected", FALSE, <<"Missing 'query' in payload">>)

\* get_agent: build the agent when none is stored and store it when the
\* constructor returns; ok is whether FlightSearchAgent() returns or raises
ConstructionRaised == Returned("raised", FALSE, <<"FlightSearchAgent() failed">>)

GetAgentRaises(ok) == agent_instance = 0 /\ ~ok

GetAgentNeverStores(p, ok) ==
    /\ attempts < MaxAttempts
    /\ attempts' = attempts + 1
    /\ agent' = [agent EXCEPT ![p] = IF ok THEN attempts + 1 ELSE 0]
    /\ UNCHANGED agent_instance
GetAgent(p, ok) ==
    IF agent_instance = 0
    THEN /\ attempts < MaxAttempts
         /\ attempts' = attempts + 1
         /\ agent_instance' = IF ok THEN attempts + 1 ELSE 0
         /\ agent' = [agent EXCEPT ![p] = IF ok THEN attempts + 1 ELSE 0]
    ELSE /\ ok
         /\ agent' = [agent EXCEPT ![p] = agent_instance]
         /\ UNCHANGED <<agent_instance, attempts>>

AdkRequestHandler(p, query, ok) ==
    /\ pc[p] = "idle"
    /\ GetAgent(p, ok)
    /\ IF GetAgentRaises(ok)
       THEN /\ ret' = [ret EXCEPT ![p] = ConstructionRaised]
            /\ pc' = [pc EXCEPT ![p] = "done"]
            /\ UNCHANGED <<chat, history, runId, user_query, tools_for_this_call, response,
                           tool_response_data, broke, dispatched, nruns, nsends, nrecv>>
       ELSE IF query = <<>>
       THEN /\ ret' = [ret EXCEPT ![p] = MissingQuery]
            /\ pc' = [pc EXCEPT ![p] = "done"]
            /\ UNCHANGED <<chat, history, runId, user_query, tools_for_this_call, response,
                           tool_response_data, broke, dispatched, nruns, nsends, nrecv>>
       ELSE EnterProcessQuery(p, query)

\* a coroutine gives up the event loop only at an await: while one request is
\* between two awaits (loop test, tool call, text extraction) no other runs
Runnable(p) ==
    \A o \in HandlerCallers \ {p} : pc[o] \notin {"loop", "calling"}

NextHandler ==
    \E p \in HandlerCallers :
        \/ \E query \in PayloadQueries : \E ok \in BOOLEAN :
              Runnable(p) /\ AdkRequestHandler(p, query, ok)
        \/ Runnable(p) /\ SendFails(p)
        \/ \E r \in ModelResponses : Runnable(p) /\ SendReturns(p, r)
        \/ Dispatch(p)
        \/ ToolRaises(p)
        \/ ToolReturns(p)
        \/ UnknownFunction(p)
        \/ Finish(p)
        \/ Return(p)

SpecHandler == Init /\ [][NextHandler]_vars

\* ------------------------------------------------- get_agent on its own
\* any caller may call get_agent, any number of times: it takes the agent, or
\* the exception
GotAgent == Returned("agent", FALSE, <<>>)

GetAgentCall(p, ok) ==
    /\ pc[p] = "idle"
    /\ GetAgent(p, ok)
    /\ ret' = [ret EXCEPT ![p] = IF GetAgentRaises(ok) THEN ConstructionRaised ELSE GotAgent]
    /\ pc' = [pc EXCEPT ![p] = "done"]
    /\ UNCHANGED <<chat, history, runId, user_query, tools_for_this_call, response,
                   tool_response_data, broke, dispatched, nruns, nsends, nrecv>>

NextGetAgent ==
    \E p \in Callers :
        \/ \E ok \in BOOLEAN : GetAgentCall(p, ok)
        \/ Return(p)

SpecGetAgent == Init /\ [][NextGetAgent]_vars

\* ------------------------------------------------ the loop of main.py whole
\* input(): a query, an empty line, or the word that ends the loop
ExitLine == <<"exit">>
MainInputs == Queries \cup {<<>>, ExitLine}

\* one turn of the while loop up to its await: break on exit/quit, otherwise
\* hand the line as it is to process_query
MainLoop(p, line) ==
    IF line = ExitLine
    THEN /\ pc[p] = "idle"
         /\ pc' = [pc EXCEPT ![p] = "exited"]
         /\ UNCHANGED <<chat, history, runId, user_query, tools_for_this_call, response,
                        tool_response_data, broke, dispatched, ret, nruns, nsends, nrecv,
                   agent_instance, agent, attempts>>
    ELSE ProcessQuery(p, line)

NextMain ==
    \E p \in MainCallers :
        \/ \E line \in MainInputs : MainLoop(p, line)
        \/ SendFails(p)
        \/ \E r \in ModelResponses : SendReturns(p, r)
        \/ Dispatch(p)
        \/ ToolRaises(p)
        \/ ToolReturns(p)
        \/ UnknownFunction(p)
        \/ Finish(p)
        \/ Return(p)

SpecMain == Init /\ [][NextMain]_vars

\* --------------------------------------- the extraction of the final text
\* the parts a final response can hold: text, empty text, and echoed results
\* with an error, an error beside flights, flights with and without a
\* summary, a summary without flights, and nothing
FinalSegments ==
    { TextPart(ClosingText),
      TextPart(<<>>),
      FunctionResponsePart(SF, ErrorPayload(<<"rate limited">>)),
      FunctionResponsePart(SF, Payload(<<F1, F2>>, <<"Found ", CountTok(2), " flights">>,
                                       <<"rate limited">>)),
      FunctionResponsePart(SF, Payload(<<F2, F1>>, <<"Found ", CountTok(2), " flights">>, <<>>)),
      FunctionResponsePart(SGF, Payload(<<F3>>, <<>>, <<>>)),
      FunctionResponsePart(SGF, Payload(<<>>, <<"Found ", CountTok(0), " flights">>, <<>>)),
      FunctionResponsePart(SGF, NoPayload) }

FinalResponses ==
    {NoResponse} \cup
    {Response(TRUE, parts) : parts \in UNION {[1..n -> FinalSegments] : n \in 0..MaxParts}}

\* the reply to the first send of a run has just arrived and ends the loop
InitAggregate ==
    \E q \in Queries : \E r \in FinalResponses :
        /\ chat = TRUE
        /\ history = <<UserMessage(1, q, InitialTools), ModelMessage(1, r)>>
        /\ pc = [p \in Callers |-> IF p \in MainCallers THEN "loop" ELSE "idle"]
        /\ runId = [p \in Callers |-> IF p \in MainCallers THEN 1 ELSE 0]
        /\ user_query = [p \in Callers |-> IF p \in MainCallers THEN q ELSE <<>>]
        /\ tools_for_this_call =
              [p \in Callers |-> IF p \in MainCallers THEN InitialTools ELSE {}]
        /\ response = [p \in Callers |-> IF p \in MainCallers THEN r ELSE NoResponse]
        /\ tool_response_data = [p \in Callers |-> NoPayload]
        /\ broke = [p \in Callers |-> FALSE]
        /\ dispatched = [p \in Callers |-> <<>>]
        /\ ret = [p \in Callers |-> NoReturn]
        /\ nruns = 1
        /\ nsends = 1
        /\ nrecv = 1
        /\ agent_instance = 0
        /\ agent = [p \in Callers |-> 0]
        /\ attempts = 0

NextAggregate ==
    \E p \in MainCallers :
        \/ Finish(p)
        \/ Return(p)

SpecAggregate == InitAggregate /\ [][NextAggregate]_vars

\* ------------------------------------------------------ helpers for claims
Last(seq) == seq[Len(seq)]

\* sub occurs in s as a contiguous run of tokens starting at position i
OccursAt(s, sub, i) ==
    /\ i >= 1
    /\ i + Len(sub) - 1 <= Len(s)
    /\ \A k \in 1..Len(sub) : s[i + k - 1] = sub[k]

Contains(s, sub) == \E i \in 1..Len(s) : OccursAt(s, sub, i)

\* the pieces occur in s one after the other, in the order given
RECURSIVE ContainsInOrderFrom(_, _, _)
ContainsInOrderFrom(s, pieces, start) ==
    IF pieces = <<>> THEN TRUE
    ELSE \E i \in start..Len(s) :
            /\ OccursAt(s, Head(pieces), i)
            /\ ContainsInOrderFrom(s, Tail(pieces), i + Len(Head(pieces)))

HasInvocationRequest(r) ==
    r.cand /\ \E i \in 1..Len(r.parts) : r.parts[i].kind = "call"

\* the model messages of a run, in order
RunResponses(run) == SelectSeq(history, LAMBDA m: m.run = run /\ m.role = "model")

\* the capability-result messages of a run for a registered tool, in order
RunResults(run) ==
    SelectSeq(history, LAMBDA m: /\ m.run = run
                                 /\ m.role = "function"
                                 /\ m.parts[1].name \in AVAILABLE_FLIGHT_TOOLS)

\* the latest tool call of the run has not returned a result (it is still
\* awaited, or it raised)
LastDispatchUnanswered(p) ==
    \/ pc[p] = "calling"
    \/ /\ pc[p] \in {"done", "idle"}
       /\ ~broke[p]
       /\ WhileCond(response[p])
       /\ FunctionName(response[p]) \in AVAILABLE_FLIGHT_TOOLS
       /\ ~ArgsAccepted(FunctionArgs(response[p]))

\* process_query returned a non-empty failure text
IsFailure(r) == r.isStr /\ r.via \in {"except", "fallback"} /\ r.val # <<>>

\* ------------------------------------------------------------------ claims

\* C1 (as stated): in every run, whatever the model answers, search_google_flights
\* is dispatched only after search_flights was dispatched earlier in that run.
C1_SecondNeverBeforeFirst ==
    \A p \in Callers : \A i \in 1..Len(dispatched[p]) :
        dispatched[p][i].name = SGF =>
            \E j \in 1..(i - 1) : dispatched[p][j].name = SF

\* C1 (amended): search_google_flights is dispatched before search_flights only
\* when the model requested it on a turn where it was not offered; whenever it
\* is dispatched on a turn that offered it, search_flights was dispatched
\* earlier in the run.
C1_SecondBeforeFirstOnlyUnoffered ==
    \A p \in Callers : \A i \in 1..Len(dispatched[p]) :
        (dispatched[p][i].name = SGF /\ SGF \in dispatched[p][i].offered) =>
            \E j \in 1..(i - 1) : dispatched[p][j].name = SF

C1_Witness ==
    \E p \in Callers : \E i \in 1..Len(dispatched[p]) :
        /\ dispatched[p][i].name = SGF
        /\ SGF \in dispatched[p][i].offered
        /\ \E j \in 1..(i - 1) : dispatched[p][j].name = SF

\* C2: the send that carries a result of search_flights (flights or error) is
\* the next send after the dispatch and offers exactly {search_google_flights}.
C2_AfterFirstOfferSecondOnly ==
    /\ \A i \in 1..Len(history) :
            (history[i].role = "function" /\ history[i].parts[1].name = SF) =>
                history[i].offered = {SGF}
    /\ \A p \in Callers :
            LET results == RunResults(runId[p])
                n == Len(dispatched[p])
            IN  /\ Len(results) = IF LastDispatchUnanswered(p) THEN n - 1 ELSE n
                /\ \A k \in 1..Len(results) :
                        results[k].parts[1].name = dispatched[p][k].name

C2_Witness ==
    \E i \in 1..Len(history) :
        /\ history[i].role = "function"
        /\ history[i].parts[1].name = SF
        /\ history[i].parts[1].response.error # <<>>
        /\ history[i].offered = {SGF}
        /\ \E j \in 1..Len(history) :
              /\ history[j].role = "function"
              /\ history[j].parts[1].name = SF
              /\ history[j].parts[1].response.flights # <<>>

\* the response has candidates and content parts
WellFormed(r) == r.cand /\ r.parts # <<>>

\* C3 (as stated): when the answer to the initial send holds no invocation
\* request, process_query returns a non-empty failure text, not the model's
\* text.  Stated for an answer that has content parts (an answer without any
\* is the case of C4).
C3_NoRequestEndsFailed ==
    \A p \in Callers :
        (/\ pc[p] = "done"
         /\ Len(RunResponses(runId[p])) = 1
         /\ WellFormed(response[p])
         /\ ~HasInvocationRequest(response[p])) => IsFailure(ret[p])

\* C4 (as stated): process_query always returns a string.
C4_AlwaysReturnsString ==
    \A p \in Callers : pc[p] = "done" => ret[p].isStr

\* C5 (as stated): after a request for a name outside AVAILABLE_FLIGHT_TOOLS the
\* run ends failed and the history ends with the unknown-function result.
\* Stated for a run whose last send was answered with content parts.
C5_UnknownEndsFailedResultLast ==
    \A p \in Callers :
        (pc[p] = "done" /\ broke[p] /\ Len(RunResponses(runId[p])) >= 2
                        /\ WellFormed(response[p])) =>
            /\ IsFailure(ret[p])
            /\ Last(history).role = "function"
            /\ Last(history).parts[1].response.error # <<>>

\* the errors search_flights can return
SearchFlightsErrors ==
    { get_sky_ids_for_airports("origin_unknown", ArgOrigin, ArgDestination).error,
      search_flights_sky_scrapper("http_error", "NYCA", "LOND").error }

\* the run's latest tool call was search_flights and it returned an error,
\* whose result is being sent
FirstFailedJustNow(p) ==
    /\ pc[p] = "sending"
    /\ ~broke[p]
    /\ dispatched[p] # <<>>
    /\ Last(dispatched[p]).name = SF
    /\ tool_response_data[p].error # <<>>

\* C6: an error returned by search_flights goes into the capability-result
\* unmodified, the run goes on, and that send offers {search_google_flights}.
C6_FirstErrorPassedOnRunContinues ==
    \A p \in Callers :
        FirstFailedJustNow(p) =>
            /\ tool_response_data[p].error \in SearchFlightsErrors
            /\ Last(history) =
                   [role |-> "function", run |-> runId[p], cand |-> TRUE,
                    parts |-> << [kind |-> "fresp", name |-> SF, args |-> "",
                                  text |-> <<>>,
                                  response |-> ErrorPayload(tool_response_data[p].error)] >>,
                    offered |-> {SGF}]
            /\ ret[p] = NoReturn

C6_Witness == \E p \in Callers : FirstFailedJustNow(p)

\* the run's latest tool call raised at the call site
DispatchRaised(p) ==
    /\ pc[p] \in {"done", "idle"}
    /\ dispatched[p] # <<>>
    /\ LastDispatchUnanswered(p)

\* C7 (as stated): a tool call that raises becomes an {error} capability-result
\* sent to the session, and the run does not end by it.
C7_RaisingToolBecomesErrorResult ==
    \A p \in Callers :
        DispatchRaised(p) =>
            /\ ret[p].via # "except"
            /\ Len(RunResults(runId[p])) = Len(dispatched[p])
            /\ Last(RunResults(runId[p])).parts[1].response.error # <<>>

\* the final response of a finished run is text only
PureText(r) ==
    /\ r.cand
    /\ r.parts # <<>>
    /\ \A i \in 1..Len(r.parts) : r.parts[i].kind = "text" /\ r.parts[i].text # <<>>

\* the flight records / summaries the tool `name` returned in the run
RunFlights(run, name) ==
    LET res == SelectSeq(RunResults(run), LAMBDA m: m.parts[1].name = name)
    IN  IF res = <<>> THEN <<>> ELSE res[1].parts[1].response.flights

RunSummary(run, name) ==
    LET res == SelectSeq(RunResults(run), LAMBDA m: m.parts[1].name = name)
    IN  IF res = <<>> THEN <<>> ELSE res[1].parts[1].response.summary

\* both tools returned flights, the first with a summary, and the run ended
\* on a response that is text only
BothFoundFlights(p) ==
    /\ pc[p] = "done"
    /\ Len(RunResults(runId[p])) = 2
    /\ RunFlights(runId[p], SF) # <<>>
    /\ RunSummary(runId[p], SF) # <<>>
    /\ RunFlights(runId[p], SGF) # <<>>
    /\ Len(RunResponses(runId[p])) = 3
    /\ PureText(response[p])

RecordTokens(flights) == [i \in 1..Len(flights) |-> <<flights[i].notes>>]

\* C8 (as stated): the returned string holds the records of search_flights in
\* order, then those of search_google_flights, then the summary of
\* search_flights, then the model's closing text.
C8_BothListingsThenSummaryThenText ==
    \A p \in Callers :
        BothFoundFlights(p) =>
            /\ ret[p].isStr
            /\ ContainsInOrderFrom(ret[p].val,
                   RecordTokens(RunFlights(runId[p], SF))
                   \o RecordTokens(RunFlights(runId[p], SGF))
                   \o <<RunSummary(runId[p], SF)>>
                   \o <<response[p].parts[1].text>>, 1)

\* C8 (amended): in such a run the returned string is the text of the final
\* response alone; no record or summary of either tool is in it.
C8_PureTextFinalReturnsTextOnly ==
    \A p \in Callers :
        BothFoundFlights(p) =>
            /\ ret[p] = Returned("answer", TRUE,
                                 Join([i \in 1..Len(response[p].parts) |->
                                           response[p].parts[i].text]))
            /\ \A name \in {SF, SGF} :
                  /\ \A i \in 1..Len(RunFlights(runId[p], name)) :
                        ~Contains(ret[p].val, <<RunFlights(runId[p], name)[i].notes>>)
                  /\ ~Contains(ret[p].val, RunSummary(runId[p], name))

C8_Witness == \E p \in Callers : BothFoundFlights(p)

\* the errors search_flights returned in the run
RunFirstErrors(run) ==
    LET res == RunResults(run)
    IN  { res[i].parts[1].response.error :
             i \in {k \in 1..Len(res) : /\ res[k].parts[1].name = SF
                                        /\ res[k].parts[1].response.error # <<>>} }

\* the final response carries a capability-result segment with error e
EchoesError(r, e) ==
    /\ r.cand
    /\ \E i \in 1..Len(r.parts) :
          r.parts[i].kind = "fresp" /\ r.parts[i].response.error = e

HasResultSegment(r) ==
    r.cand /\ \E i \in 1..Len(r.parts) : r.parts[i].kind = "fresp"

\* the run ended by the extraction of the final text response
Extracted(p) == pc[p] = "done" /\ ret[p].via \in {"answer", "fallback", "none"}

\* C9 (as stated): when search_flights returned {error: E}, the returned string
\* holds the line "there was a problem: E" and no listing for search_flights.
C9_FirstErrorShownInAnswer ==
    \A p \in Callers :
        (pc[p] = "done" /\ ret[p].via = "answer") =>
            \A e \in RunFirstErrors(runId[p]) :
                /\ ret[p].isStr
                /\ Contains(ret[p].val, ProblemLine(e))
                /\ ~Contains(ret[p].val, ListingHeader)

\* C9 (amended): the problem line for E is in the returned string when the
\* final response itself carries a capability-result segment with error E, and
\* is not when the final response carries no capability-result segment.
C9_ProblemLineOnlyFromFinalResponse ==
    \A p \in Callers :
        Extracted(p) =>
            \A e \in RunFirstErrors(runId[p]) :
                /\ EchoesError(response[p], e) =>
                       ret[p].isStr /\ Contains(ret[p].val, ProblemLine(e))
                /\ ~HasResultSegment(response[p]) =>
                       ~Contains(ret[p].val, ProblemLine(e))

C9_Witness ==
    \E p \in Callers :
        /\ Extracted(p)
        /\ \E e \in RunFirstErrors(runId[p]) : EchoesError(response[p], e)

\* C10 (as stated): the history holds one message per send call.
C10_OneMessagePerSend == Len(history) = nsends

\* C10 (amended): the history holds one message per send call plus one per
\* response returned, every step appends at most one message, and what was in
\* the history stays where it was.
C10_AppendOnlyTwoPerCompletedSend ==
    /\ [](Len(history) = nsends + nrecv)
    /\ [][/\ Len(history') \in {Len(history), Len(history) + 1}
          /\ SubSeq(history', 1, Len(history)) = history
          /\ nsends' + nrecv' = nsends + nrecv + (Len(history') - Len(history))]_vars

C10_Witness ==
    /\ nruns = 2
    /\ nrecv >= 2
    /\ Len(history) = nsends + nrecv
    /\ history[1].run = 1
    /\ Last(history).run = 2

\* the locals that decide the loop when the k-th response of a run arrives:
\* the response itself and tools_for_this_call (InitialTools until a result of
\* search_flights has been sent, NextOffer(SF) from then on)
LoopHead(run, k) ==
    LET msgs == RunMessages(run)
    IN  [response |-> Response(msgs[2 * k].cand, msgs[2 * k].parts),
         tools |-> IF \E i \in 1..(2 * k) : /\ msgs[i].role = "function"
                                            /\ msgs[i].parts[1].name = SF
                   THEN NextOffer(SF) ELSE InitialTools]

\* the k-th response of the run sends the loop round once more
LoopGoesOn(run, k) ==
    LET r == LoopHead(run, k).response
    IN  WhileCond(r) /\ FunctionName(r) \in AVAILABLE_FLIGHT_TOOLS

\* C11 (as stated): no sequence of model responses keeps the dispatch loop
\* running forever.  In its finite form: within a run the loop never comes back,
\* by an iteration that goes on, to locals it has already had; if it does, the
\* model can repeat the same answers without end.
C11_LoopNeverRevisitsItsState ==
    \A p \in Callers :
        LET n == Len(RunResponses(runId[p]))
        IN  \A j \in 1..n : \A k \in (j + 1)..n :
                (LoopGoesOn(runId[p], j) /\ LoopGoesOn(runId[p], k)) =>
                    LoopHead(runId[p], j) # LoopHead(runId[p], k)

\* how often `name` was dispatched in the run
DispatchCount(p, name) ==
    Cardinality({i \in 1..Len(dispatched[p]) : dispatched[p][i].name = name})

\* C12 (as stated): a run dispatches search_flights at most once and
\* search_google_flights at most once, and nothing after the result of
\* search_google_flights has been sent.
C12_EachToolAtMostOnce ==
    \A p \in Callers :
        /\ Len(dispatched[p]) <= 2
        /\ DispatchCount(p, SF) <= 1
        /\ DispatchCount(p, SGF) <= 1
        /\ \A i \in 1..Len(dispatched[p]) :
              dispatched[p][i].name = SGF => i = Len(dispatched[p])

\* the run dispatched search_flights first, got its result, and the answer to
\* that result is not a request for search_google_flights
SecondStepSkipped(p) ==
    LET rs == RunResponses(runId[p])
    IN  /\ Len(rs) >= 2
        /\ dispatched[p] # <<>>
        /\ dispatched[p][1].name = SF
        /\ WellFormed(rs[2])
        /\ ~(rs[2].parts[1].kind = "call" /\ rs[2].parts[1].name = SGF)

\* the first answer of the run requests search_google_flights
FirstStepSkipped(p) ==
    /\ dispatched[p] # <<>>
    /\ dispatched[p][1].name = SGF

\* C13 (as stated): a run in which the answer after search_flights is anything
\* but a request for search_google_flights, or in which the first answer
\* requests the other registered tool, ends with a failure text.  Stated for
\* answers that have content parts.
C13_OutOfSequenceEndsFailed ==
    \A p \in Callers :
        (pc[p] = "done" /\ WellFormed(response[p])
            /\ (SecondStepSkipped(p) \/ FirstStepSkipped(p))) => IsFailure(ret[p])

\* the run ended because a send to the session failed
SendFailed(p) == ret[p] = ExceptReturn("model unavailable")

\* C14: a failed model call ends the run at once with a failure text: the step
\* that fails it makes no send and no dispatch, and while the run is the
\* caller's latest nothing more is sent or dispatched and the result stays.
C14_ModelFailureEndsRun ==
    /\ [](\A p \in Callers :
            SendFailed(p) => pc[p] \in {"done", "idle"} /\ IsFailure(ret[p]))
    /\ [][\A p \in Callers :
            /\ (~SendFailed(p) /\ SendFailed(p)') =>
                  /\ pc[p] = "sending"
                  /\ UNCHANGED <<history, nsends, nrecv, dispatched>>
            /\ (SendFailed(p) /\ runId'[p] = runId[p]) =>
                  /\ UNCHANGED <<history, nsends, nrecv, dispatched>>
                  /\ ret'[p] = ret[p]]_vars

C14_Witness ==
    \E p \in Callers : SendFailed(p) /\ pc[p] = "idle" /\ dispatched[p] # <<>>

\* C15: the first message of every run is the user query, sent with exactly
\* {search_flights} offered, whatever earlier runs offered last; no other
\* message of the run is a user message.
C15_EveryRunStartsWithFirstToolOnly ==
    \A run \in 1..nruns :
        LET msgs == RunMessages(run)
        IN  /\ msgs # <<>>
            /\ \E q \in Queries : msgs[1] = UserMessage(run, q, {SF})
            /\ \A k \in 2..Len(msgs) : msgs[k].role # "user"

C15_Witness ==
    \E i \in 1..Len(history) :
        /\ history[i].role = "user"
        /\ history[i].run = 2
        /\ history[i].offered = {SF}
        /\ \E j \in 1..(i - 1) :
              history[j].role = "function" /\ history[j].offered = {SGF}

\* C16: the send that carries a result of search_google_flights offers no tools.
C16_AfterSecondNothingOffered ==
    \A i \in 1..Len(history) :
        (history[i].role = "function" /\ history[i].parts[1].name = SGF) =>
            history[i].offered = {}

C16_Witness ==
    \E i \in 1..Len(history) :
        /\ history[i].role = "function"
        /\ history[i].parts[1].name = SGF
        /\ history[i].offered = {}
        /\ i < Len(history)

\* C17: after a request for an unregistered name the run makes exactly one more
\* send, the unknown-function error without tools; at most the reply to it
\* follows in the run, and no tool is dispatched afterwards.
C17_UnknownSendsOnceThenStops ==
    \A p \in Callers :
        LET msgs == RunMessages(runId[p])
        IN  \A k \in 1..Len(msgs) :
                (/\ msgs[k].role = "function"
                 /\ msgs[k].parts[1].name \notin AVAILABLE_FLIGHT_TOOLS) =>
                    /\ k > 1
                    /\ msgs[k] = FunctionMessage(runId[p],
                            [kind |-> "fresp", name |-> msgs[k - 1].parts[1].name,
                             args |-> "", text |-> <<>>,
                             response |-> ErrorPayload(<<"Unknown function ",
                                                         msgs[k - 1].parts[1].name>>)],
                            {})
                    /\ k >= Len(msgs) - 1
                    /\ (k = Len(msgs) - 1) => msgs[Len(msgs)].role = "model"
                    /\ pc[p] # "calling"
                    /\ Len(dispatched[p]) =
                          Cardinality({i \in 1..k :
                              /\ msgs[i].role = "function"
                              /\ msgs[i].parts[1].name \in AVAILABLE_FLIGHT_TOOLS})

C17_Witness ==
    \E p \in Callers :
        /\ broke[p]
        /\ pc[p] = "done"
        /\ Len(RunResponses(runId[p])) >= 2
        /\ WhileCond(response[p])
        /\ FunctionName(response[p]) \in AVAILABLE_FLIGHT_TOOLS

\* C18: every capability-result of a run answers the model message right
\* before it and carries the name of that message's first invocation request,
\* so a turn gets one dispatch and one result however many requests it holds.
C18_OneDispatchPerTurn ==
    \A p \in Callers :
        LET msgs == RunMessages(runId[p])
        IN  /\ \A k \in 1..Len(msgs) :
                  msgs[k].role = "function" =>
                      /\ k > 1
                      /\ msgs[k - 1].role = "model"
                      /\ msgs[k - 1].parts # <<>>
                      /\ msgs[k - 1].parts[1].kind = "call"
                      /\ Len(msgs[k].parts) = 1
                      /\ msgs[k].parts[1].name = msgs[k - 1].parts[1].name
            /\ Len(dispatched[p]) <= Len(RunResponses(runId[p]))
            /\ \A i \in 1..Len(dispatched[p]) :
                  \E k \in 1..Len(msgs) :
                      /\ msgs[k].role = "model"
                      /\ msgs[k].parts # <<>>
                      /\ msgs[k].parts[1].name = dispatched[p][i].name

C18_Witness ==
    \E p \in Callers :
        LET msgs == RunMessages(runId[p])
        IN  \E k \in 1..Len(msgs) :
                /\ msgs[k].role = "model"
                /\ Len(msgs[k].parts) = 2
                /\ msgs[k].parts[1].kind = "call"
                /\ msgs[k].parts[2].kind = "call"
                /\ k + 2 <= Len(msgs)
                /\ msgs[k + 1].role = "function"
                /\ msgs[k + 2].role = "model"
                /\ Len(dispatched[p]) = 1

\* C19 (as stated): when the final response yields no renderable text, zero
\* content parts and no candidates included, the fallback text is returned.
C19_NoTextGivesFallback ==
    \A p \in Callers :
        (Extracted(p) /\ (~WellFormed(response[p]) \/ TextParts(response[p].parts) = <<>>)) =>
            ret[p] = Returned("fallback", TRUE, FallbackText)

\* C20 (as stated): with two requests in flight in adk_request_handler on the
\* shared session, the messages of a run are contiguous in the history: no
\* message of another run lies between two messages of one run.
C20_RunsNotInterleaved ==
    \A i \in 1..Len(history) : \A k \in (i + 1)..Len(history) :
        history[i].run = history[k].run =>
            \A j \in i..k : history[j].run = history[i].run

\* C21 (as stated): every capability-result message of the history comes
\* right after a model message whose last segment is an invocation request
\* with the name of the result.
C21_ResultFollowsLastRequest ==
    \A i \in 1..Len(history) :
        history[i].role = "function" =>
            /\ i > 1
            /\ history[i - 1].role = "model"
            /\ history[i - 1].parts # <<>>
            /\ Last(history[i - 1].parts).kind = "call"
            /\ Last(history[i - 1].parts).name = history[i].parts[1].name

\* C21 (amended): among the messages of its run, every capability-result comes
\* right after the model message it answers, and it carries the name of that
\* message's first segment, an invocation request; later segments do not count.
C21_ResultFollowsFirstRequest ==
    \A run \in 1..nruns :
        LET msgs == RunMessages(run)
        IN  \A k \in 1..Len(msgs) :
                msgs[k].role = "function" =>
                    /\ k > 1
                    /\ msgs[k - 1].role = "model"
                    /\ msgs[k - 1].parts # <<>>
                    /\ msgs[k - 1].parts[1].kind = "call"
                    /\ msgs[k - 1].parts[1].name = msgs[k].parts[1].name

C21_Witness ==
    \E i \in 2..Len(history) :
        /\ history[i].role = "function"
        /\ history[i - 1].role = "model"
        /\ Len(history[i - 1].parts) = 2
        /\ history[i - 1].parts[1].kind = "call"
        /\ Last(history[i - 1].parts).kind = "call"
        /\ Last(history[i - 1].parts).name # history[i].parts[1].name
        /\ history[i - 1].parts[1].name = history[i].parts[1].name

\* C22: the session is created once, by the first query, and kept: from then
\* on every step leaves the history as it was or appends to it, so what a
\* query left in the history is a prefix of the history ever after, and every
\* run that was started still has its messages there.
C22_SessionCreatedOnceHistoryOnlyGrows ==
    /\ [](chat <=> nruns >= 1)
    /\ [](\A run \in 1..nruns : RunMessages(run) # <<>>)
    /\ [][(~chat /\ chat') => (history = <<>> /\ nruns = 0)]_vars
    /\ [][chat => /\ chat'
                  /\ Len(history') >= Len(history)
                  /\ SubSeq(history', 1, Len(history)) = history]_vars

C22_Witness ==
    /\ chat
    /\ nruns = 2
    /\ \E p \in Callers : pc[p] = "done" /\ runId[p] = 2
    /\ Len(RunMessages(1)) >= 2
    /\ Len(RunMessages(2)) >= 2
    /\ history[1] = RunMessages(1)[1]

\* C23 (as stated): no entry point lets an empty or missing query into
\* process_query: no run is ever started with an empty query and no user
\* message with empty text is ever sent to the session.
C23_EmptyQueryNeverProcessed ==
    /\ \A p \in Callers : runId[p] > 0 => user_query[p] # <<>>
    /\ \A i \in 1..Len(history) :
          history[i].role = "user" => history[i].parts[1].text # <<>>

\* the segments the claim speaks of: text, a result with an error, a result
\* with flight records
InClaim(part) ==
    \/ part.kind = "text" /\ part.text # <<>>
    \/ part.kind = "fresp" /\ part.response.error # <<>>
    \/ part.kind = "fresp" /\ part.response.flights # <<>>

\* what the claim says one segment contributes, a sequence of pieces; for the
\* segments it does not speak of (empty text, a result with neither error nor
\* flight records) what the extraction appends
Rendering(part) ==
    IF ~InClaim(part) THEN PartTexts(part)
    ELSE IF part.kind = "text" THEN <<part.text>>
    ELSE IF part.response.error # <<>> THEN <<ProblemLine(part.response.error)>>
    ELSE <<ListingHeader>>
         \o [i \in 1..Len(part.response.flights) |->
                FlightEntry(i, part.response.flights[i])]
         \o (IF part.response.summary # <<>>
             THEN <<SummaryLine(part.response.summary)>> ELSE <<>>)

\* the pieces of segments 1..n, in segment order
RECURSIVE RenderingUpTo(_, _)
RenderingUpTo(parts, n) ==
    IF n = 0 THEN <<>> ELSE RenderingUpTo(parts, n - 1) \o Rendering(parts[n])

\* C24: the answer is the rendering of the final response's segments in
\* segment order: text verbatim; for a result with an error the problem line
\* alone, flights or not; for a result with flights the header, one entry per
\* record in the order given, then the summary when there is one.
C24_SegmentsRenderedInOrder ==
    \A p \in Callers :
        (/\ pc[p] = "done"
         /\ WellFormed(response[p])
         /\ \E i \in 1..Len(response[p].parts) : InClaim(response[p].parts[i])) =>
            ret[p] = Returned("answer", TRUE,
                              Join(RenderingUpTo(response[p].parts, Len(response[p].parts))))

C24_Witness ==
    \E p \in Callers :
        /\ pc[p] = "done"
        /\ ret[p].via = "answer"
        /\ Len(response[p].parts) = 2
        /\ response[p].parts[1].kind = "fresp"
        /\ response[p].parts[1].response.error # <<>>
        /\ response[p].parts[1].response.flights # <<>>
        /\ response[p].parts[2].kind = "fresp"
        /\ response[p].parts[2].response.error = <<>>
        /\ response[p].parts[2].response.flights = <<F2, F1>>
        /\ response[p].parts[2].response.summary # <<>>

\* the first segment of a message is an invocation request
FirstIsRequest(m) == m.parts # <<>> /\ m.parts[1].kind = "call"

\* C25: a model response whose first segment is not an invocation request ends
\* its run's dialogue: it is the last message of the run, so no
\* capability-result answers it, and no tool is being called for it, whatever
\* requests its later segments hold.
C25_OnlyAFirstRequestIsDispatched ==
    /\ \A run \in 1..nruns :
          LET msgs == RunMessages(run)
          IN  \A k \in 1..Len(msgs) :
                  (msgs[k].role = "model" /\ ~FirstIsRequest(msgs[k])) => k = Len(msgs)
    /\ \A p \in Callers :
          pc[p] = "calling" => (response[p].cand /\ FirstIsRequest(response[p]))

C25_Witness ==
    \E p \in Callers :
        /\ pc[p] = "done"
        /\ Len(response[p].parts) = 2
        /\ response[p].parts[1].kind = "text"
        /\ response[p].parts[2].kind = "call"
        /\ Last(RunMessages(runId[p])) = ModelMessage(runId[p], response[p])
        /\ dispatched[p] = <<>>
        /\ ret[p].via = "answer"

\* C26: get_agent builds the agent at most once with success and hands that
\* one instance to every caller: once an instance is stored it is never
\* replaced and the constructor is not called again.  A call made while none
\* is stored calls the constructor; when that raises, the caller gets the
\* exception and no agent, and the stored instance stays unset, so the next
\* call constructs again.
C26_AgentBuiltOnceAndShared ==
    /\ [](\A p \in Callers : agent[p] # 0 => agent[p] = agent_instance)
    /\ [](agent_instance # 0 => attempts = agent_instance)
    /\ [](\A p \in Callers : (pc[p] = "done" /\ ret[p] = ConstructionRaised) => agent[p] = 0)
    /\ [][agent_instance # 0 =>
             (agent_instance' = agent_instance /\ attempts' = attempts)]_vars
    /\ [][\A p \in Callers :
             (pc[p] = "idle" /\ pc'[p] = "done" /\ agent_instance = 0) =>
                 /\ attempts' = attempts + 1
                 /\ (ret'[p] = ConstructionRaised) <=> (agent_instance' = 0)
                 /\ agent'[p] = agent_instance']_vars

C26_Witness ==
    \E p \in Callers : \E o \in Callers \ {p} :
        /\ attempts = 2
        /\ agent_instance = 2
        /\ agent[p] = agent_instance
        /\ agent[o] = agent_instance
        /\ pc[p] = "done"
        /\ ret[p] = GotAgent

====
